---- MODULE Spec2Model ----
(***************************************************************************)
(* Model of the audio-extension program: extend_audio.py (functions and    *)
(* batch driver) and audio_augmentation.py (AudioAugmentor and its         *)
(* single-shot driver).                                                    *)
(*                                                                         *)
(* Signals are sequences of fixed-point samples (FullScale units = 1.0).   *)
(* TLA+ sequences are 1-based: the sample the code calls x[i] is x[i+1].   *)
(* Real numbers the code computes with (durations, rates, room sizes) are  *)
(* pairs <<numerator, denominator>> with a positive denominator.           *)
(***************************************************************************)
EXTENDS Integers, Sequences, FiniteSets, TLC

\* ---------------------------------------------------------------- bounds
MaxLen == 3          \* longest input signal
RngMod == 3          \* number of states of the global random generator
FullScale == 1000    \* fixed-point units per 1.0 of amplitude

\* ---------------------------------------------------------------- inputs
Amplitudes == {0 - (FullScale \div 2), 0}
Signals == UNION {[1..n -> Amplitudes] : n \in 1..MaxLen}
SampleRates == {0, 20, 40, 60}
Durations == {<<0 - 3, 40>>, <<1, 40>>, <<2, 40>>, <<5, 40>>}
Slacks == {0 - 1, 0}
NoiseLevels == {<<0, 1000>>, <<5, 1000>>}
RoomSizes == {<<0, 10>>, <<3, 10>>, <<5, 10>>, <<10, 10>>}
ExtendMethods == {"stretch", "repeat", "stretch_and_repeat", "pad_silence", "bogus"}
AugmentMethods == {"simple", "stretch", "comprehensive", "bogus"}
MainMethods == {"simple", "stretch", "comprehensive"}
Rates == {<<0, 10>>, <<7, 10>>, <<15, 10>>}

\* target_duration and sample_rate of extend_audio.main (5.0 s at 22050 Hz),
\* scaled down with the signals: 0.05 s at 40 Hz, a target of 2 samples
MainConfig == [target_duration |-> <<2, 40>>, sample_rate |-> 40]

\* ------------------------------------------------------- number helpers
Abs(x) == IF x < 0 THEN 0 - x ELSE x
Min(a, b) == IF a < b THEN a ELSE b
Max(a, b) == IF a > b THEN a ELSE b

\* int(num/den): Python's int() truncates toward zero (den > 0)
Trunc(num, den) == IF num >= 0 THEN num \div den ELSE 0 - ((0 - num) \div den)

\* int(np.ceil(num/den)) (den > 0)
Ceil(num, den) == 0 - ((0 - num) \div den)

\* Python's // on integers: floor division (den > 0)
FloorDiv(num, den) == num \div den

\* Python's round(num/den): nearest, ties to even (den > 0)
RoundHalfEven(num, den) ==
    LET f == num \div den
        r2 == 2 * (num - f * den)
    IN  IF r2 < den THEN f
        ELSE IF r2 > den THEN f + 1
        ELSE IF f % 2 = 0 THEN f ELSE f + 1

\* x * num/den on a fixed-point sample
Scale(x, num, den) == Trunc(x * num, den)

\* ------------------------------------------------------- array helpers
Zeros(n) == [i \in 1..n |-> 0]

\* a[:k], Python slicing: a negative k counts from the end
Prefix(a, k) ==
    IF k >= 0 THEN SubSeq(a, 1, Min(k, Len(a)))
    ELSE SubSeq(a, 1, Max(0, Len(a) + k))

\* np.tile(a, reps) for reps >= 0 (a negative reps raises, see the callers)
Tile(a, reps) ==
    IF Len(a) = 0 \/ reps <= 0 THEN <<>>
    ELSE [i \in 1..(reps * Len(a)) |-> a[((i - 1) % Len(a)) + 1]]

\* np.max(np.abs(a)) of a non-empty array
MaxAbs(a) == CHOOSE m \in {Abs(a[i]) : i \in 1..Len(a)} :
                 \A j \in 1..Len(a) : Abs(a[j]) <= m

\* np.linspace(0, 1, n)[j] as the pair <<num, den>>, j zero-based
\* (linspace(0, 1, 1) is [0.])
FadeIn(n, j) == IF n = 1 THEN <<0, 1>> ELSE <<j, n - 1>>

\* np.linspace(1, 0, n)[j], j zero-based (linspace(1, 0, 1) is [1.])
FadeOut(n, j) == IF n = 1 THEN <<1, 1>> ELSE <<n - 1 - j, n - 1>>

\* the value of 0.0/0.0 in numpy (a warning, not an exception)
NaN == 0 - (1000 * FullScale)

\* ------------------------------------------------------------- outcomes
NoError == "none"
UnknownMethod == "ValueError: Unknown method"
NegativeDim == "ValueError: negative dimensions"
EmptyReduce == "ValueError: zero-size array to reduction operation"
ZeroDivision == "ZeroDivisionError"
ParameterError == "ParameterError: rate must be a positive number"

\* what a call leaves behind: the exception or the returned signal, the
\* generator state, and the locals of the seam loop (the tiled buffer before
\* the loop, the buffer after it, the seam period and the repeat count)
Outcome(e, s, r, t, f, p, k) ==
    [err |-> e, sig |-> s, rng |-> r, tiled |-> t, faded |-> f, period |-> p,
     num_repeats |-> k]
Ok(s, r) == Outcome(NoError, s, r, <<>>, <<>>, 0, 0)
OkSeams(s, r, t, f, p, k) == Outcome(NoError, s, r, t, f, p, k)
Raise(e, r) == Outcome(e, <<>>, r, <<>>, <<>>, 0, 0)

\* ------------------------------------------- the global random generator
\* np.random keeps one hidden generator state per process; every draw
\* advances it.
RngNext(r) == (r + 1) % RngMod

RECURSIVE RngSkip(_, _)
RngSkip(r, n) == IF n <= 0 THEN r ELSE RngSkip(RngNext(r), n - 1)

\* one standard-normal draw, coarsely quantised
Gauss(r) == (r % 3) - 1

\* np.random.normal(0, level, n): n draws, level = <<num, den>>
NormalDraws(r, level, n) ==
    [i \in 1..n |-> Scale(Gauss(RngSkip(r, i - 1)) * FullScale, level[1], level[2])]

\* np.random.uniform(0.75, 0.85)
StretchRates == <<<<75, 100>>, <<80, 100>>, <<84, 100>>>>
UniformStretchRate(r) == StretchRates[(r % 3) + 1]

\* np.random.uniform(0.003, 0.008)
VariantNoiseLevels == <<<<3, 1000>>, <<5, 1000>>, <<7, 1000>>>>
UniformNoiseLevel(r) == VariantNoiseLevels[(r % 3) + 1]

\* ------------------------------------------------------ signal primitives
\* add_white_noise(audio, noise_level): audio + np.random.normal(0, level, n)
AddWhiteNoise(audio, level, r) ==
    LET noise == NormalDraws(r, level, Len(audio))
    IN  [i \in 1..Len(audio) |-> audio[i] + noise[i]]

\* the delay rounded to the nearest sample instead of truncated
ReverbDelayRounded(sr, room) == RoundHalfEven(sr * room[1], 20 * room[2])

\* delay = int(sr * 0.05 * room_size)
ReverbDelay(sr, room) == Trunc(sr * room[1], 20 * room[2])

\* decay = 0.3 * room_size
ReverbDecay(room) == <<3 * room[1], 10 * room[2]>>

\* simple_reverb / AudioAugmentor.add_reverb
Reverb(audio, sr, room) ==
    LET n == Len(audio)
        delay == ReverbDelay(sr, room)
        decay == ReverbDecay(room)
        copied == [i \in 1..(n + delay) |-> IF i <= n THEN audio[i] ELSE 0]
        echoed == [i \in 1..(n + delay) |->
                     IF i > delay
                     THEN copied[i] + Scale(audio[i - delay], decay[1], decay[2])
                     ELSE copied[i]]
    IN  Prefix(echoed, n)

\* librosa.effects.time_stretch(audio, rate): int(round(len / rate)) samples,
\* up to the slack of the engine; the samples are a resampling of the input
TimeStretch(audio, rate, slack) ==
    LET n == Len(audio)
        base == RoundHalfEven(n * rate[2], rate[1])
        m == IF base + slack >= 1 THEN base + slack ELSE base
    IN  [i \in 1..m |-> audio[Min(n, (((i - 1) * n) \div m) + 1)]]

\* AudioAugmentor.time_stretch: librosa rejects a rate that is not positive
time_stretch(audio, rate, slack, r) ==
    IF rate[1] <= 0 THEN Raise(ParameterError, r)
    ELSE Ok(TimeStretch(audio, rate, slack), r)

\* fade_length = int(0.05 * sr)
FadeLength(sr) == Trunc(sr, 20)

\* target_length = int(target_duration * sr)
TargetLength(dur, sr) == Trunc(dur[1] * sr, dur[2])

\* the guard of one seam with <= in place of <
FadeWindowFitsInclusive(start, fl, n) == start <= n /\ start + fl <= n

\* the guard of one seam: start_idx < len(buf) and start_idx + fade_length < len(buf)
FadeWindowFits(start, fl, n) == start < n /\ start + fl < n

\* buf[start:start + fl] *= np.linspace(0, 1, fl)
ApplyFadeIn(buf, start, fl) ==
    [j \in 1..Len(buf) |->
        IF start < j /\ j <= start + fl
        THEN LET f == FadeIn(fl, j - 1 - start) IN Scale(buf[j], f[1], f[2])
        ELSE buf[j]]

\* if start - fl >= 0: buf[start - fl:start] *= np.linspace(1, 0, fl)
ApplyFadeOut(buf, start, fl) ==
    IF start - fl >= 0
    THEN [j \in 1..Len(buf) |->
            IF start - fl < j /\ j <= start
            THEN LET f == FadeOut(fl, j - 1 - (start - fl)) IN Scale(buf[j], f[1], f[2])
            ELSE buf[j]]
    ELSE buf

\* the seam loop of the comprehensive pipelines: for i in range(i, num_repeats)
RECURSIVE CrossfadeSeams(_, _, _, _, _)
CrossfadeSeams(buf, period, fl, i, num_repeats) ==
    IF i >= num_repeats THEN buf
    ELSE LET start == i * period
             faded == IF FadeWindowFits(start, fl, Len(buf))
                      THEN ApplyFadeIn(buf, start, fl)
                      ELSE buf
         IN  CrossfadeSeams(faded, period, fl, i + 1, num_repeats)

\* the seam loop of extend_audio_method1_repeat: fade out before the seam,
\* fade in after it
RECURSIVE CrossfadeSeamsRepeat(_, _, _, _, _)
CrossfadeSeamsRepeat(buf, period, fl, i, num_repeats) ==
    IF i >= num_repeats THEN buf
    ELSE LET start == i * period
             faded == IF FadeWindowFits(start, fl, Len(buf))
                      THEN ApplyFadeIn(ApplyFadeOut(buf, start, fl), start, fl)
                      ELSE buf
         IN  CrossfadeSeamsRepeat(faded, period, fl, i + 1, num_repeats)

\* ------------------------------------------------ extend_audio.py methods
extend_audio_method1_repeat(audio, sr, dur, r) ==
    LET target_length == TargetLength(dur, sr)
        current_length == Len(audio)
        num_repeats == Ceil(target_length, current_length)
        extended == Tile(audio, num_repeats)
        faded == CrossfadeSeamsRepeat(extended, current_length, FadeLength(sr),
                                      1, num_repeats)
    IN  IF num_repeats < 0 THEN Raise(NegativeDim, r)
        ELSE OkSeams(Prefix(faded, target_length), r, extended, faded,
                     current_length, num_repeats)

extend_audio_method2_stretch_repeat(audio, sr, dur, slack, r) ==
    LET target_length == TargetLength(dur, sr)
        stretched == TimeStretch(audio, <<8, 10>>, slack)
        extended == IF Len(stretched) < target_length
                    THEN Tile(stretched, Ceil(target_length, Len(stretched)))
                    ELSE stretched
    IN  Ok(Prefix(extended, target_length), r)

extend_audio_method3_comprehensive(audio, sr, dur, noise_level, slack, r) ==
    LET target_length == TargetLength(dur, sr)
        stretch_rate == UniformStretchRate(r)
        r1 == RngNext(r)
        stretched == TimeStretch(audio, stretch_rate, slack)
        num_repeats == Ceil(target_length, Len(stretched))
        repeated == Prefix(Tile(stretched, num_repeats), target_length)
        faded == CrossfadeSeams(repeated, Len(stretched), FadeLength(sr),
                                1, num_repeats)
        noisy == AddWhiteNoise(faded, noise_level, r1)
        r2 == RngSkip(r1, Len(faded))
        extended == Reverb(noisy, sr, <<3, 10>>)
    IN  IF num_repeats < 0 THEN Raise(NegativeDim, r1)
        ELSE OkSeams(Prefix(extended, target_length), r2, repeated, faded,
                     Len(stretched), num_repeats)

\* the larger half of the silence put in front
SilenceBeforeRoundedUp(silence_needed) == Ceil(silence_needed, 2)

\* silence_before = silence_needed // 2
SilenceBefore(silence_needed) == FloorDiv(silence_needed, 2)

extend_audio_method4_silence_padding(audio, sr, dur, r) ==
    LET target_length == TargetLength(dur, sr)
        current_length == Len(audio)
        silence_needed == target_length - current_length
        silence_before == SilenceBefore(silence_needed)
        silence_after == silence_needed - silence_before
        noise_before == NormalDraws(r, <<1, 1000>>, silence_before)
        r1 == RngSkip(r, silence_before)
        noise_after == NormalDraws(r1, <<1, 1000>>, silence_after)
        r2 == RngSkip(r1, silence_after)
    IN  IF silence_before < 0 THEN Raise(NegativeDim, r)
        ELSE IF silence_after < 0 THEN Raise(NegativeDim, r1)
        ELSE Ok(noise_before \o audio \o noise_after, r2)

\* normalize_audio(audio, target_peak=0.95)
normalize_audio(audio, r) ==
    IF Len(audio) = 0 THEN Raise(EmptyReduce, r)
    ELSE LET max_val == MaxAbs(audio)
         IN  IF max_val > 0
             THEN Ok([i \in 1..Len(audio) |->
                        Trunc(audio[i] * 95 * FullScale, max_val * 100)], r)
             ELSE Ok(audio, r)

\* np.clip(audio, -1.0, 1.0)
Clip(audio) ==
    [i \in 1..Len(audio) |->
        IF audio[i] = NaN THEN NaN
        ELSE Max(0 - FullScale, Min(FullScale, audio[i]))]

\* save_audio of extend_audio.py: normalize, clip, write; the written file
\* is appended to the files written so far
save_audio(audio, path, written, r) ==
    LET normalized == normalize_audio(audio, r)
    IN  IF normalized.err # NoError THEN [err |-> normalized.err, files |-> written]
        ELSE [err |-> NoError,
              files |-> Append(written, [path |-> path, data |-> Clip(normalized.sig)])]

\* --------------------------------------------------------- AudioAugmentor
\* AudioAugmentor.extend_to_target_length
extend_to_target_length(audio, method, target_length, slack, r) ==
    LET current_length == Len(audio)
    IN  IF current_length >= target_length THEN Ok(Prefix(audio, target_length), r)
        ELSE IF method = "stretch"
        THEN LET stretched == TimeStretch(audio, <<current_length, target_length>>, slack)
             IN  Ok(Prefix(stretched, target_length), r)
        ELSE IF method = "repeat"
        THEN LET num_repeats == Ceil(target_length, current_length)
             IN  Ok(Prefix(Tile(audio, num_repeats), target_length), r)
        ELSE IF method = "stretch_and_repeat"
        THEN LET stretched == TimeStretch(audio, <<7, 10>>, slack)
             IN  IF Len(stretched) < target_length
                 THEN Ok(Prefix(Tile(stretched, Ceil(target_length, Len(stretched))),
                                target_length), r)
                 ELSE Ok(Prefix(stretched, target_length), r)
        ELSE IF method = "pad_silence"
        THEN LET silence_needed == target_length - current_length
                 silence_before == SilenceBefore(silence_needed)
                 silence_after == silence_needed - silence_before
             IN  Ok(Zeros(silence_before) \o audio \o Zeros(silence_after), r)
        ELSE Raise(UnknownMethod, r)

\* the "comprehensive" branch of AudioAugmentor.augment_audio
AugmentComprehensive(audio, noise_level, sr, target_length, slack, r) ==
    LET stretched == TimeStretch(audio, <<8, 10>>, slack)
        num_repeats == Ceil(target_length, Len(stretched))
        repeated == Prefix(Tile(stretched, num_repeats), target_length)
        faded == CrossfadeSeams(repeated, Len(stretched), FadeLength(sr),
                                1, num_repeats)
        noisy == AddWhiteNoise(faded, noise_level, r)
        r1 == RngSkip(r, Len(faded))
        extended == Reverb(noisy, sr, <<3, 10>>)
    IN  IF num_repeats < 0 THEN Raise(NegativeDim, r)
        ELSE OkSeams(extended, r1, repeated, faded, Len(stretched), num_repeats)

\* the length fix of augment_audio: truncate, or np.pad with zeros at the end
FixLength(extended, target_length) ==
    IF Len(extended) > target_length THEN Prefix(extended, target_length)
    ELSE IF Len(extended) < target_length
    THEN extended \o Zeros(target_length - Len(extended))
    ELSE extended

\* extended / np.max(np.abs(extended)) * 0.95
PeakScale(extended) ==
    LET max_val == MaxAbs(extended)
    IN  [i \in 1..Len(extended) |->
            IF max_val = 0 THEN NaN
            ELSE Trunc(extended[i] * 95 * FullScale, max_val * 100)]

\* AudioAugmentor.augment_audio
augment_audio(audio, method, noise_level, sr, target_length, slack, r) ==
    LET step == IF method = "simple"
                THEN extend_to_target_length(audio, "repeat", target_length, slack, r)
                ELSE IF method = "stretch"
                THEN extend_to_target_length(audio, "stretch", target_length, slack, r)
                ELSE IF method = "comprehensive"
                THEN AugmentComprehensive(audio, noise_level, sr, target_length, slack, r)
                ELSE Raise(UnknownMethod, r)
        fixed == FixLength(step.sig, target_length)
    IN  IF step.err # NoError THEN step
        ELSE IF Len(fixed) = 0 THEN Raise(EmptyReduce, step.rng)
        ELSE [step EXCEPT !.sig = PeakScale(fixed)]

\* AudioAugmentor.save_audio: clip and write, no normalization
augmentor_save_audio(audio, path, written) ==
    Append(written, [path |-> path, data |-> Clip(audio)])

\* ------------------------------------------------------------------ state
VARIABLES
    audio,            \* the decoded input signal
    target_duration,  \* seconds, <<num, den>>
    sample_rate,      \* Hz
    stretch_slack,    \* how far the stretch engine misses int(round(len/rate))
    rng,              \* state of the global np.random generator
    pc,               \* "idle" between library calls, else the driver's position
    call,             \* the last call: function, method, noise level, room size,
                      \* and the generator state it started from
    result,           \* what the last call returned or raised
    files,            \* the output files written so far
    variant           \* loop index of the variant loop of extend_audio.main

vars == <<audio, target_duration, sample_rate, stretch_slack, rng, pc, call,
          result, files, variant>>

config == <<audio, target_duration, sample_rate, stretch_slack>>

target_length == TargetLength(target_duration, sample_rate)

CallOf(op, method, noise_level, room_size, rate) ==
    [op |-> op, method |-> method, noise_level |-> noise_level,
     room_size |-> room_size, rate |-> rate, rng |-> rng]

NoCall == [op |-> "none", method |-> "", noise_level |-> <<0, 1000>>,
           room_size |-> <<0, 10>>, rate |-> <<1, 1>>, rng |-> 0]

Init ==
    /\ audio \in Signals
    /\ target_duration \in Durations
    /\ sample_rate \in SampleRates
    /\ stretch_slack \in Slacks
    /\ rng \in 0..(RngMod - 1)
    /\ pc = "idle"
    /\ call = NoCall
    /\ result = Raise(NoError, 0)
    /\ files = <<>>
    /\ variant = 0

\* ---------------------------------------------------------- library calls
\* one call of a library function on the loaded signal
LibraryCall(c, out) ==
    /\ call' = c
    /\ result' = out
    /\ rng' = out.rng
    /\ UNCHANGED <<config, pc, files, variant>>

Method1Call ==
    /\ pc = "idle"
    /\ LibraryCall(CallOf("extend_audio_method1_repeat", "", <<0, 1000>>, <<0, 10>>, <<1, 1>>),
                extend_audio_method1_repeat(audio, sample_rate, target_duration, rng))

Method2Call ==
    /\ pc = "idle"
    /\ LibraryCall(CallOf("extend_audio_method2_stretch_repeat", "", <<0, 1000>>, <<0, 10>>, <<8, 10>>),
                extend_audio_method2_stretch_repeat(audio, sample_rate, target_duration,
                                                    stretch_slack, rng))

Method3Call ==
    /\ pc = "idle"
    /\ \E noise_level \in NoiseLevels :
        LibraryCall(CallOf("extend_audio_method3_comprehensive", "", noise_level, <<3, 10>>,
                           UniformStretchRate(rng)),
                    extend_audio_method3_comprehensive(audio, sample_rate, target_duration,
                                                       noise_level, stretch_slack, rng))

Method4Call ==
    /\ pc = "idle"
    /\ LibraryCall(CallOf("extend_audio_method4_silence_padding", "", <<1, 1000>>, <<0, 10>>, <<1, 1>>),
                extend_audio_method4_silence_padding(audio, sample_rate, target_duration, rng))

NormalizeCall ==
    /\ pc = "idle"
    /\ LibraryCall(CallOf("normalize_audio", "", <<0, 1000>>, <<0, 10>>, <<1, 1>>),
                normalize_audio(audio, rng))

SimpleReverbCall ==
    /\ pc = "idle"
    /\ \E room_size \in RoomSizes :
        LibraryCall(CallOf("simple_reverb", "", <<0, 1000>>, room_size, <<1, 1>>),
                    Ok(Reverb(audio, sample_rate, room_size), rng))

AddReverbCall ==
    /\ pc = "idle"
    /\ \E room_size \in RoomSizes :
        LibraryCall(CallOf("add_reverb", "", <<0, 1000>>, room_size, <<1, 1>>),
                    Ok(Reverb(audio, sample_rate, room_size), rng))

TimeStretchCall ==
    /\ pc = "idle"
    /\ \E rate \in Rates :
        LibraryCall(CallOf("time_stretch", "", <<0, 1000>>, <<0, 10>>, rate),
                    time_stretch(audio, rate, stretch_slack, rng))

ExtendCall ==
    /\ pc = "idle"
    /\ \E method \in ExtendMethods :
        LibraryCall(CallOf("extend_to_target_length", method, <<0, 1000>>, <<0, 10>>, <<1, 1>>),
                    extend_to_target_length(audio, method, target_length, stretch_slack, rng))

AugmentCall ==
    /\ pc = "idle"
    /\ \E method \in AugmentMethods, noise_level \in NoiseLevels :
        LibraryCall(CallOf("augment_audio", method, noise_level, <<3, 10>>, <<8, 10>>),
                    augment_audio(audio, method, noise_level, sample_rate, target_length,
                                  stretch_slack, rng))

\* ------------------------------------------- extend_audio.main, the batch
\* the input file exists and is loaded; the configuration is main's
BatchStart ==
    /\ pc = "idle"
    /\ call = NoCall
    /\ target_duration = MainConfig.target_duration
    /\ sample_rate = MainConfig.sample_rate
    /\ pc' = "method1"
    /\ call' = CallOf("extend_audio.main", "", <<5, 1000>>, <<3, 10>>, <<1, 1>>)
    /\ UNCHANGED <<config, rng, result, files, variant>>

\* one block of main: extend, then save_audio; an exception ends the run
BatchBlock(out, path, next, next_variant) ==
    LET saved == save_audio(out.sig, path, files, out.rng)
    IN  /\ rng' = out.rng
        /\ IF out.err # NoError
           THEN pc' = "crashed" /\ result' = out /\ UNCHANGED <<files, variant>>
           ELSE IF saved.err # NoError
           THEN /\ pc' = "crashed"
                /\ result' = Raise(saved.err, out.rng)
                /\ UNCHANGED <<files, variant>>
           ELSE /\ pc' = next
                /\ result' = out
                /\ files' = saved.files
                /\ variant' = next_variant
        /\ UNCHANGED <<config, call>>

BatchMethod1 ==
    /\ pc = "method1"
    /\ BatchBlock(extend_audio_method1_repeat(audio, sample_rate, target_duration, rng),
                  "output_extended_repeat.wav", "method2", variant)

BatchMethod2 ==
    /\ pc = "method2"
    /\ BatchBlock(extend_audio_method2_stretch_repeat(audio, sample_rate, target_duration,
                                                      stretch_slack, rng),
                  "output_extended_stretch.wav", "method3", variant)

BatchMethod3 ==
    /\ pc = "method3"
    /\ BatchBlock(extend_audio_method3_comprehensive(audio, sample_rate, target_duration,
                                                     <<5, 1000>>, stretch_slack, rng),
                  "output_extended_comprehensive.wav", "method4", variant)

BatchMethod4 ==
    /\ pc = "method4"
    /\ BatchBlock(extend_audio_method4_silence_padding(audio, sample_rate, target_duration, rng),
                  "output_extended_silence.wav", "variants", variant)

\* for i in range(3): draw a noise level, run the comprehensive method, save
BatchVariant ==
    /\ pc = "variants"
    /\ variant < 3
    /\ LET noise_level == UniformNoiseLevel(rng)
       IN  BatchBlock(extend_audio_method3_comprehensive(audio, sample_rate, target_duration,
                                                         noise_level, stretch_slack,
                                                         RngNext(rng)),
                      "output_extended_variant", "variants", variant + 1)

BatchDone ==
    /\ pc = "variants"
    /\ variant = 3
    /\ pc' = "done"
    /\ UNCHANGED <<config, rng, call, result, files, variant>>

\* ------------------------------------ audio_augmentation.main, single shot
\* parse the arguments, build the augmentor, load, print the input duration
SingleStart ==
    /\ pc = "idle"
    /\ call = NoCall
    /\ \E method \in MainMethods, noise_level \in NoiseLevels :
           call' = CallOf("audio_augmentation.main", method, noise_level, <<3, 10>>, <<8, 10>>)
    /\ IF sample_rate = 0
       THEN pc' = "crashed" /\ result' = Raise(ZeroDivision, rng)
       ELSE pc' = "augment" /\ result' = result
    /\ UNCHANGED <<config, rng, files, variant>>

SingleAugment ==
    /\ pc = "augment"
    /\ LET out == augment_audio(audio, call.method, call.noise_level, sample_rate,
                                target_length, stretch_slack, rng)
       IN  /\ result' = out
           /\ rng' = out.rng
           /\ pc' = IF out.err # NoError THEN "crashed" ELSE "save"
    /\ UNCHANGED <<config, call, files, variant>>

SingleSave ==
    /\ pc = "save"
    /\ files' = augmentor_save_audio(result.sig, "output_extended.wav", files)
    /\ pc' = "done"
    /\ UNCHANGED <<config, rng, call, result, variant>>

Next ==
    \/ Method1Call
    \/ Method2Call
    \/ Method3Call
    \/ Method4Call
    \/ NormalizeCall
    \/ SimpleReverbCall
    \/ AddReverbCall
    \/ TimeStretchCall
    \/ ExtendCall
    \/ AugmentCall
    \/ BatchStart
    \/ BatchMethod1
    \/ BatchMethod2
    \/ BatchMethod3
    \/ BatchMethod4
    \/ BatchVariant
    \/ BatchDone
    \/ SingleStart
    \/ SingleAugment
    \/ SingleSave

Spec == Init /\ [][Next]_vars

TypeOK ==
    /\ audio \in Signals
    /\ rng \in 0..(RngMod - 1)
    /\ pc \in {"idle", "method1", "method2", "method3", "method4", "variants",
               "augment", "save", "done", "crashed"}
    /\ variant \in 0..3

\* ----------------------------------------------------------------- claims
\* a configuration the specification calls valid
ValidConfig == target_duration[1] > 0 /\ sample_rate > 0

\* target_length as the specification states it: round(target_duration * sample_rate)
RoundedTargetLength ==
    RoundHalfEven(target_duration[1] * sample_rate, target_duration[2])

Returned == result.err = NoError

IsZeroSignal(s) == \A i \in 1..Len(s) : s[i] = 0

StrategyFunctions ==
    {"extend_audio_method1_repeat", "extend_audio_method2_stretch_repeat",
     "extend_audio_method4_silence_padding"}

StrategyMethods == {"stretch", "repeat", "stretch_and_repeat", "pad_silence"}

\* the last call is a length-matching strategy with a recognized method
StrategyCall ==
    \/ call.op \in StrategyFunctions
    \/ call.op = "extend_to_target_length" /\ call.method \in StrategyMethods

\* the last call is a full pipeline with a recognized method
PipelineCall ==
    \/ call.op = "extend_audio_method3_comprehensive"
    \/ call.op = "augment_audio" /\ call.method \in MainMethods

\* C1: for every valid configuration and non-empty input, every strategy and
\* the full pipeline return a signal of exactly
\* round(target_duration * sample_rate) samples.
C1_ExactTargetLength ==
    (ValidConfig /\ (StrategyCall \/ PipelineCall))
        => (Returned /\ Len(result.sig) = RoundedTargetLength)

\* C2: extend_to_target_length and augment_audio fail with the configuration
\* error whenever the method is not a recognized one, whatever the input
\* length; they never return a signal for such a method.
C2_UnknownMethodFails ==
    (/\ ValidConfig
     /\ call.op \in {"extend_to_target_length", "augment_audio"}
     /\ call.method = "bogus")
        => result.err = UnknownMethod

\* C3: normalizing an all-zero signal is a no-op, in normalize_audio and in
\* the final step of augment_audio: the result is the same all-zero signal
\* and holds no NaN sample.
C3_SilenceStaysSilent ==
    (/\ IsZeroSignal(audio)
     /\ \/ call.op = "normalize_audio"
        \/ /\ call.op = "augment_audio"
           /\ call.method \in MainMethods
           /\ call.method = "comprehensive" => call.noise_level[1] = 0
     /\ Returned)
        => (IsZeroSignal(result.sig) /\ \A i \in 1..Len(result.sig) : result.sig[i] # NaN)

\* the last call is the silence-pad strategy on a signal shorter than the target
SilencePadCall ==
    /\ \/ call.op = "extend_audio_method4_silence_padding"
       \/ call.op = "extend_to_target_length" /\ call.method = "pad_silence"
    /\ Len(audio) < target_length

\* the input is found verbatim at offset needed // 2 of the output
HoldsInputAt(out, offset) ==
    /\ Len(out) >= offset + Len(audio)
    /\ \A i \in 1..Len(audio) : out[offset + i] = audio[i]

\* every output sample outside the span of the input is zero
ZeroOutside(out, offset) ==
    \A i \in 1..Len(out) :
        (i <= offset \/ i > offset + Len(audio)) => out[i] = 0

\* C4 as stated: silence-pad of a shorter signal holds the input verbatim at
\* indices needed // 2 .. needed // 2 + len - 1 and exactly zero elsewhere.
C4_SilencePadZeroElsewhere ==
    SilencePadCall =>
        LET needed == target_length - Len(audio)
        IN  /\ Returned
            /\ Len(result.sig) = target_length
            /\ HoldsInputAt(result.sig, needed \div 2)
            /\ ZeroOutside(result.sig, needed \div 2)

\* C4 amended: both silence-pad implementations return target_length samples
\* with the input verbatim at indices needed // 2 .. needed // 2 + len - 1;
\* the other samples are exactly zero in extend_to_target_length, while
\* extend_audio_method4_silence_padding fills them with low-level noise.
C4_SilencePadVerbatim ==
    SilencePadCall =>
        LET needed == target_length - Len(audio)
        IN  /\ Returned
            /\ Len(result.sig) = target_length
            /\ HoldsInputAt(result.sig, needed \div 2)
            /\ call.op = "extend_to_target_length"
                   => ZeroOutside(result.sig, needed \div 2)

\* C4 witness: pad_silence has padded a non-silent signal with an odd number
\* of zeros
C4_Witness ==
    /\ call.op = "extend_to_target_length"
    /\ call.method = "pad_silence"
    /\ target_length - Len(audio) = 3
    /\ ~IsZeroSignal(audio)
    /\ Returned
    /\ Len(result.sig) = target_length

\* C5: when len(signal) >= target_length every strategy returns exactly the
\* first target_length samples of the input and does not fail.
C5_TruncatesFromStart ==
    (ValidConfig /\ StrategyCall /\ Len(audio) >= target_length)
        => (Returned /\ result.sig = SubSeq(audio, 1, target_length))

\* the last call is one of the two reverb functions
ReverbCall == call.op \in {"simple_reverb", "add_reverb"}

\* out is the truncating single-tap echo of the input with the given delay
IsSingleTapEcho(out, delay) ==
    LET decay == <<3 * call.room_size[1], 10 * call.room_size[2]>>
    IN  /\ Len(out) = Len(audio)
        /\ \A i \in 1..Len(audio) :
              out[i] = IF i <= delay THEN audio[i]
                       ELSE audio[i] + Scale(audio[i - delay], decay[1], decay[2])

\* C6 as stated: reverb returns the single-tap echo with
\* delay = round(0.05 * sampleRate * roomSize).
C6_EchoWithRoundedDelay ==
    ReverbCall =>
        IsSingleTapEcho(result.sig,
                        RoundHalfEven(sample_rate * call.room_size[1],
                                      20 * call.room_size[2]))

\* C6 amended: reverb returns a signal of the input's length that is the
\* truncating single-tap echo with delay = int(sampleRate * 0.05 * roomSize),
\* the product truncated toward zero, and decay = 0.3 * roomSize.
C6_EchoWithTruncatedDelay ==
    ReverbCall =>
        LET num == sample_rate * call.room_size[1]
            den == 20 * call.room_size[2]
        IN  IsSingleTapEcho(result.sig, num \div den)

\* C6 witness: an echo of a non-zero sample landed inside the signal
C6_Witness ==
    /\ ReverbCall
    /\ sample_rate = 20
    /\ call.room_size = <<10, 10>>
    /\ Len(audio) = 3
    /\ audio[1] # 0
    /\ result.sig[2] # audio[2]

\* C7: every strategy and pipeline entry point rejects a non-positive
\* target_duration or sample_rate, and time_stretch a non-positive rate:
\* the call fails and returns no signal.
C7_InvalidParameterRejected ==
    (\/ (StrategyCall \/ PipelineCall) /\ ~ValidConfig
     \/ call.op = "time_stretch" /\ call.rate[1] <= 0)
        => ~Returned

\* C8: an error is fatal and leaves no partial output: when a driver run has
\* raised, no file was written earlier in that run, and every written file
\* holds a buffer of full target length.
C8_NoPartialOutput ==
    /\ pc = "crashed" => files = <<>>
    /\ ValidConfig => \A k \in 1..Len(files) : Len(files[k].data) = target_length

\* C9: comprehensive-pipeline calls are independent of each other: a call
\* that follows another one with the same signal, configuration and noise
\* level returns the same output.
C9_CallsIndependent ==
    [][(/\ call.op = "extend_audio_method3_comprehensive"
        /\ call'.op = "extend_audio_method3_comprehensive"
        /\ call'.noise_level = call.noise_level
        /\ config' = config)
           => result'.sig = result.sig]_vars

\* the last call ran a seam loop over a tiled buffer
SeamCall ==
    /\ \/ call.op \in {"extend_audio_method1_repeat", "extend_audio_method3_comprehensive"}
       \/ call.op = "augment_audio" /\ call.method = "comprehensive"
    /\ Returned
    /\ result.period > 0

\* sample x at zero-based index i after the seams k, k+1, .. of a buffer of n
\* samples: the fade-in window of a seam is [k*period, k*period + fl), its
\* fade-out window (when with_fade_out) the fl samples before the seam; a
\* seam counts when its fade-in window ends before n (or at n, if inclusive)
RECURSIVE AfterSeams(_, _, _, _, _, _, _, _)
AfterSeams(x, i, k, period, fl, n, inclusive, with_fade_out) ==
    IF k * period > n THEN x
    ELSE LET start == k * period
             counts == IF inclusive THEN start + fl <= n ELSE start + fl < n
             out == FadeOut(fl, i - (start - fl))
             in == FadeIn(fl, i - start)
             x1 == IF counts /\ with_fade_out /\ start - fl >= 0
                      /\ start - fl <= i /\ i < start
                   THEN Scale(x, out[1], out[2]) ELSE x
             x2 == IF counts /\ start <= i /\ i < start + fl
                   THEN Scale(x1, in[1], in[2]) ELSE x1
         IN  AfterSeams(x2, i, k + 1, period, fl, n, inclusive, with_fade_out)

\* C10 as stated: the seam loop multiplies by the 0-to-1 ramp exactly the
\* samples k*seamPeriod .. k*seamPeriod + fadeLength - 1 of every seam
\* k >= 1 with k*seamPeriod + fadeLength <= len(buffer), and changes no
\* other sample.
C10_SeamsFadedInclusive ==
    SeamCall =>
        /\ Len(result.faded) = Len(result.tiled)
        /\ \A j \in 1..Len(result.tiled) :
              result.faded[j] =
                  AfterSeams(result.tiled[j], j - 1, 1, result.period,
                             FadeLength(sample_rate), Len(result.tiled), TRUE, FALSE)

\* C10 amended: the seam loop fades the seams k >= 1 whose window ends
\* strictly before the end of the buffer (k*seamPeriod + fadeLength <
\* len(buffer)): it multiplies the fadeLength samples from the seam by the
\* 0-to-1 ramp, and in extend_audio_method1_repeat also the fadeLength samples
\* before the seam by a 1-to-0 ramp; every other sample is unchanged.
C10_SeamsFadedStrict ==
    SeamCall =>
        /\ Len(result.faded) = Len(result.tiled)
        /\ \A j \in 1..Len(result.tiled) :
              result.faded[j] =
                  AfterSeams(result.tiled[j], j - 1, 1, result.period,
                             FadeLength(sample_rate), Len(result.tiled), FALSE,
                             call.op = "extend_audio_method1_repeat")

\* C10 witness: a seam loop changed a sample at a seam and left one
\* after the fade window as it was
C10_Witness ==
    /\ SeamCall
    /\ FadeLength(sample_rate) >= 1
    /\ result.period + FadeLength(sample_rate) < Len(result.tiled)
    /\ result.faded[result.period + 1] # result.tiled[result.period + 1]
    /\ result.faded = [result.tiled EXCEPT ![result.period + 1] = 0]

====
